---- MODULE Spec2Model ----
(***************************************************************************)
(* Model of the PL011 serial driver of ironkernel                          *)
(* (src/arch/arm/drivers/pl011_uart.rs), its receive ring buffer and the   *)
(* register I/O primitives it uses (src/arch/arm/io/mod.rs).               *)
(*                                                                         *)
(* Spec     : every driver call is one atomic step (call-level behaviour). *)
(* IrqSpec  : the foreground calls advance one memory access at a time and *)
(*            the receive interrupt handler, which runs to completion, may *)
(*            preempt between any two of them.                             *)
(***************************************************************************)
EXTENDS Integers, Sequences, FiniteSets, TLC

(***************************************************************************)
(* Bounds of the model.                                                    *)
(***************************************************************************)
\* Capacity of the receive ring.  The source sets UART_BUFF_SZ to 1024
\* (pl011_uart.rs:13); the model scales the capacity down, the code never
\* depends on its value other than through this name.
UART_BUFF_SZ == 2

\* Largest length passed to readBuf; the caller's slice has this many slots.
MaxReq == 2

\* In the interrupt-level behaviour the wire goes quiet while more than this
\* many accepted bytes are missing from buf_count.
MaxLost == 1

\* open is tried on every rate from 1 to MaxRate, and on a few larger ones.
MaxRate == 24

\* Largest argument handed to the register primitives when they are called
\* on their own.
MaxWord == 7

(***************************************************************************)
(* Program constants.                                                      *)
(***************************************************************************)
UART_CLK == 24000000
IRQ == 12
DR == 0
IBRD == 36
FBRD == 40
LCR_H == 44
CR == 48
IMSC == 56
LCR_WLEN_8 == 352
CR_EN == 1
CR_TXE == 256
CR_RXE == 512
IMSC_RXIM == 16
IMSC_TXIM == 32
VIC_INT_ENABLE == 269746192
U16_MAX == 65535

\* Bytes the wire delivers (0x41, 0x42); ring slots start as 0.
Byte == {65, 66}

\* Baud rates requested of open: 9600 (divisor 156), 1500001 (divisor 0) and
\* 2^28 (16 * R wraps to 0 in a 32-bit word).
Rates == {9600, 1500001, 268435456}

\* Values the interrupt-mask register may hold before the first open.
ImscReset == {0, IMSC_TXIM}

Slots == 0 .. (UART_BUFF_SZ - 1)
OutSlots == 0 .. (MaxReq - 1)

VARIABLES
    rate,        \* PL011.rate
    buffer,      \* PL011.buffer
    buf_head,    \* PL011.buf_head
    buf_count,   \* PL011.buf_count
    regs,        \* the peripheral's registers IBRD, FBRD, LCR_H, CR, IMSC
    vic,         \* VIC_INT_ENABLE
    handler,     \* TRUE when int_table has the receiver bound to IRQ
    wlog,        \* the register writes of the foreground's current or last
                 \* call, oldest first, each <<address, value>>
    halted,      \* TRUE once a bounds check or a division by zero failed
    lastOp,      \* the driver call the foreground made last
    arg,         \* its argument
    ret,         \* the value it returned (NoRet until it returns)
    c,           \* the byte slot the caller handed to the last call (read)
    out,         \* the slice the caller handed to the last call (readBuf)
    pending,     \* the bytes receive accepted that no read has returned yet
    sinceRead,   \* receive calls that returned true since the last read
    closes,      \* close calls made in a row up to now (at most 2 counted)
    trip,        \* progress through open(9600), close(), open(9600)
    pc,          \* where the foreground stands inside lastOp ("idle": out)
    idx,         \* readBuf's loop index i
    tmp,         \* the register holding buf_count for read's decrement
    preempted    \* TRUE when receive ran inside the foreground's current call

dev == <<rate, buffer, buf_head, buf_count>>
ctl == <<regs, vic, handler>>
hw == <<regs, vic, handler, wlog>>
ghost == <<pending, sinceRead>>
fg == <<pc, idx, tmp, preempted>>
vars == <<rate, buffer, buf_head, buf_count, regs, vic, handler, wlog, halted,
          lastOp, arg, ret, c, out, pending, sinceRead,
          closes, trip, pc, idx, tmp, preempted>>

(***************************************************************************)
(* Machine arithmetic.                                                     *)
(***************************************************************************)
Min(a, b) == IF a < b THEN a ELSE b

Rest(q) == IF q = <<>> THEN q ELSE Tail(q)

\* What ret holds while no value has been returned.
NoRet == "none"

RECURSIVE BitOr(_, _)
BitOr(a, b) ==
    IF a = 0 THEN b
    ELSE IF b = 0 THEN a
    ELSE (IF a % 2 = 1 \/ b % 2 = 1 THEN 1 ELSE 0) + 2 * BitOr(a \div 2, b \div 2)

RECURSIVE Shl(_, _)
Shl(v, n) == IF n = 0 THEN v ELSE Shl(2 * v, n - 1)

\* 16 * rate in a 32-bit word: (16 * R) mod 2^32 = 16 * (R mod 2^28).
Mul16(R) == 16 * (R % 268435456)

\* (chip::UART_CLK / (16 * rate as uint)) as u16
int_divisor(R) == (UART_CLK \div Mul16(R)) % (U16_MAX + 1)

\* temp without the factor 8.
temp_unscaled(R) == (UART_CLK % Mul16(R)) \div R

\* (8 * (chip::UART_CLK % (16 * rate as uint))) / (rate as uint)
temp(R) == (8 * (UART_CLK % Mul16(R))) \div R

\* (((temp >> 1) + (temp & 1)) & 0x3F) as u8
f_divisor(R) == ((temp(R) \div 2) + (temp(R) % 2)) % 64

(***************************************************************************)
(* Register I/O primitives.                                                *)
(***************************************************************************)
\* io::read: volatile_load(addr)
io_read(mem, addr) == mem[addr]

\* ws storing the value without the load.
ws_overwrites(mem, addr, value) == [mem EXCEPT ![addr] = value]

\* io::ws: volatile_store(addr, volatile_load(addr) | value)
ws(mem, addr, value) == [mem EXCEPT ![addr] = BitOr(mem[addr], value)]

\* io::wh: volatile_store(addr, value)
wh(mem, addr, value) == [mem EXCEPT ![addr] = value]

Registers == {DR, IBRD, FBRD, LCR_H, CR, IMSC}

(***************************************************************************)
(* Bookkeeping shared by the calls.                                        *)
(***************************************************************************)
\* Progress through the call sequence open(9600), close(), open(9600);
\* receive runs from the interrupt and does not break the sequence.
TripNext(op, a) ==
    IF op = "open" /\ a = 9600 THEN (IF trip = 2 THEN 3 ELSE 1)
    ELSE IF op = "close" THEN (IF trip = 1 THEN 2 ELSE 0)
    ELSE IF op = "receive" THEN trip
    ELSE 0

\* The caller hands read a zeroed byte slot and readBuf a zeroed slice of
\* MaxReq slots; both live for that one call.
fresh_c == 0
fresh_out == [i \in OutSlots |-> 0]

NoCallerData ==
    /\ c' = fresh_c
    /\ out' = fresh_out

Called(op, a) ==
    /\ lastOp' = op
    /\ arg' = a
    /\ closes' = IF op = "close" THEN Min(closes + 1, 2) ELSE 0
    /\ trip' = TripNext(op, a)

(***************************************************************************)
(* PL011::new                                                              *)
(***************************************************************************)
new ==
    /\ rate = 0
    /\ buffer = [i \in Slots |-> 0]
    /\ buf_head = 0
    /\ buf_count = 0

\* The machine before the first driver call.
PowerOn ==
    /\ \E m \in ImscReset : regs = [r \in Registers |-> IF r = IMSC THEN m ELSE 0]
    /\ vic = 0
    /\ handler = FALSE
    /\ wlog = <<>>
    /\ halted = FALSE
    /\ arg = 0
    /\ ret = NoRet
    /\ c = fresh_c
    /\ out = fresh_out
    /\ pending = <<>>
    /\ sinceRead = 0
    /\ closes = 0
    /\ trip = 0
    /\ pc = "idle"
    /\ idx = 0
    /\ tmp = 0
    /\ preempted = FALSE

Init ==
    /\ new
    /\ lastOp = "new"
    /\ PowerOn

(***************************************************************************)
(* PL011::open                                                             *)
(***************************************************************************)
open_regs(R) ==
    ws(wh(wh(wh(wh(regs, IBRD, int_divisor(R)),
                   FBRD, f_divisor(R)),
                LCR_H, LCR_WLEN_8),
             CR, BitOr(CR_EN, BitOr(CR_RXE, CR_TXE))),
       IMSC, IMSC_RXIM)

\* The stores open makes, in program order.
open_log(R) ==
    << <<IBRD, int_divisor(R)>>,
       <<FBRD, f_divisor(R)>>,
       <<LCR_H, LCR_WLEN_8>>,
       <<CR, BitOr(CR_EN, BitOr(CR_RXE, CR_TXE))>>,
       <<VIC_INT_ENABLE, Shl(1, IRQ)>>,
       <<IMSC, BitOr(regs[IMSC], IMSC_RXIM)>> >>

\* open programming the divisor registers before it tests the divisor.
open_writes_first(R) ==
    /\ ~halted
    /\ Called("open", R)
    /\ pc = "idle"
    /\ UNCHANGED fg
    /\ IF Mul16(R) = 0
       THEN /\ halted' = TRUE
            /\ ret' = NoRet
            /\ wlog' = <<>>
            /\ UNCHANGED <<dev, ctl, ghost>>
       ELSE IF int_divisor(R) = 0 \/ int_divisor(R) = U16_MAX
       THEN /\ ret' = FALSE
            /\ regs' = wh(wh(regs, IBRD, int_divisor(R)), FBRD, f_divisor(R))
            /\ wlog' = << <<IBRD, int_divisor(R)>>, <<FBRD, f_divisor(R)>> >>
            /\ UNCHANGED <<dev, vic, handler, halted, ghost>>
       ELSE /\ regs' = open_regs(R)
            /\ wlog' = open_log(R)
            /\ vic' = Shl(1, IRQ)
            /\ handler' = TRUE
            /\ buf_head' = 0
            /\ buf_count' = 0
            /\ ret' = FALSE
            /\ pending' = <<>>
            /\ sinceRead' = 0
            /\ UNCHANGED <<rate, buffer, halted>>
    /\ NoCallerData

open(R) ==
    /\ ~halted
    /\ Called("open", R)
    /\ pc = "idle"
    /\ UNCHANGED fg
    /\ IF Mul16(R) = 0
       THEN \* division by zero: the call fails and never returns
            /\ halted' = TRUE
            /\ ret' = NoRet
            /\ wlog' = <<>>
            /\ UNCHANGED <<dev, ctl, ghost>>
       ELSE IF int_divisor(R) = 0 \/ int_divisor(R) = U16_MAX
       THEN /\ ret' = FALSE
            /\ wlog' = <<>>
            /\ UNCHANGED <<dev, ctl, halted, ghost>>
       ELSE /\ regs' = open_regs(R)
            /\ wlog' = open_log(R)
            /\ vic' = Shl(1, IRQ)
            /\ handler' = TRUE
            /\ buf_head' = 0
            /\ buf_count' = 0
            /\ ret' = FALSE
            /\ pending' = <<>>
            /\ sinceRead' = 0
            /\ UNCHANGED <<rate, buffer, halted>>
    /\ NoCallerData

(***************************************************************************)
(* PL011::isOpen, PL011::close, PL011::available                           *)
(***************************************************************************)
isOpen ==
    /\ ~halted
    /\ Called("isOpen", 0)
    /\ pc = "idle"
    /\ UNCHANGED fg
    /\ ret' = (rate = 0)
    /\ NoCallerData
    /\ wlog' = <<>>
    /\ UNCHANGED <<dev, ctl, halted, ghost>>

\* close with the reset of buf_count left out.
close_keeps_count ==
    /\ ~halted
    /\ Called("close", 0)
    /\ pc = "idle"
    /\ UNCHANGED fg
    /\ rate' = 0
    /\ buf_head' = 0
    /\ ret' = TRUE
    /\ pending' = <<>>
    /\ sinceRead' = 0
    /\ NoCallerData
    /\ wlog' = <<>>
    /\ UNCHANGED <<buffer, buf_count, ctl, halted>>

close ==
    /\ ~halted
    /\ Called("close", 0)
    /\ pc = "idle"
    /\ UNCHANGED fg
    /\ rate' = 0
    /\ buf_head' = 0
    /\ buf_count' = 0
    /\ ret' = TRUE
    /\ pending' = <<>>
    /\ sinceRead' = 0
    /\ NoCallerData
    /\ wlog' = <<>>
    /\ UNCHANGED <<buffer, ctl, halted>>

available ==
    /\ ~halted
    /\ Called("available", 0)
    /\ pc = "idle"
    /\ UNCHANGED fg
    /\ ret' = buf_count
    /\ NoCallerData
    /\ wlog' = <<>>
    /\ UNCHANGED <<dev, ctl, halted, ghost>>

(***************************************************************************)
(* PL011::read                                                             *)
(***************************************************************************)
\* The body of read on head h and count n with the caller's slot holding
\* slot: the bytes returned, the new head, count and slot, and whether the
\* bounds check of self.buffer[self.buf_head] failed.
read_body(h, n, slot) ==
    IF n = 0
    THEN [n |-> 0, head |-> h, count |-> n, c |-> slot, fail |-> FALSE]
    ELSE IF h \notin Slots
    THEN [n |-> 0, head |-> h, count |-> n, c |-> slot, fail |-> TRUE]
    ELSE [n |-> 1, head |-> h + 1, count |-> n - 1, c |-> buffer[h],
          fail |-> FALSE]

\* read with the test of buf_count == 0 left out.
read_unchecked ==
    /\ ~halted
    /\ Called("read", 0)
    /\ pc = "idle"
    /\ UNCHANGED fg
    /\ halted' = (buf_head \notin Slots)
    /\ IF buf_head \in Slots
       THEN /\ c' = buffer[buf_head]
            /\ buf_head' = buf_head + 1
            /\ buf_count' = buf_count - 1
            /\ ret' = 1
            /\ pending' = Rest(pending)
       ELSE /\ ret' = NoRet
            /\ UNCHANGED <<c, buf_head, buf_count, pending>>
    /\ out' = fresh_out
    /\ sinceRead' = 0
    /\ wlog' = <<>>
    /\ UNCHANGED <<rate, buffer, ctl>>

read ==
    /\ ~halted
    /\ Called("read", 0)
    /\ pc = "idle"
    /\ UNCHANGED fg
    /\ LET r == read_body(buf_head, buf_count, fresh_c) IN
       /\ halted' = r.fail
       /\ buf_head' = r.head
       /\ buf_count' = r.count
       /\ c' = r.c
       /\ ret' = IF r.fail THEN NoRet ELSE r.n
       /\ pending' = IF r.n = 1 THEN Rest(pending) ELSE pending
    /\ out' = fresh_out
    /\ sinceRead' = 0
    /\ wlog' = <<>>
    /\ UNCHANGED <<rate, buffer, ctl>>

(***************************************************************************)
(* PL011::readBuf                                                          *)
(***************************************************************************)
\* The loop of readBuf from index i: while (i < length && buf_count > 0)
\* { self.read(&mut buffer[i]); i += 1 }
RECURSIVE readBuf_loop(_, _, _, _, _)
readBuf_loop(i, h, n, o, length) ==
    IF i < length /\ n > 0
    THEN LET r == read_body(h, n, o[i]) IN
         IF r.fail
         THEN [i |-> i, head |-> h, count |-> n, out |-> o, fail |-> TRUE]
         ELSE readBuf_loop(i + 1, r.head, r.count, [o EXCEPT ![i] = r.c],
                           length)
    ELSE [i |-> i, head |-> h, count |-> n, out |-> o, fail |-> FALSE]

RECURSIVE Drop(_, _)
Drop(q, n) == IF n = 0 THEN q ELSE Drop(Rest(q), n - 1)

readBuf(length) ==
    /\ ~halted
    /\ Called("readBuf", length)
    /\ pc = "idle"
    /\ UNCHANGED fg
    /\ LET r == readBuf_loop(0, buf_head, buf_count, fresh_out, length) IN
       /\ halted' = r.fail
       /\ buf_head' = r.head
       /\ buf_count' = r.count
       /\ out' = r.out
       /\ ret' = IF r.fail THEN NoRet ELSE r.i
       /\ pending' = Drop(pending, r.i)
    /\ c' = fresh_c
    /\ sinceRead' = 0
    /\ wlog' = <<>>
    /\ UNCHANGED <<rate, buffer, ctl>>

(***************************************************************************)
(* PL011::receive                                                          *)
(***************************************************************************)
\* receive with the byte stored before the test for a full ring.
receive_stores_first(b, r) ==
    /\ buffer' = [buffer EXCEPT ![(buf_head + buf_count) % UART_BUFF_SZ] = b]
    /\ IF buf_count = UART_BUFF_SZ
       THEN /\ r = FALSE
            /\ UNCHANGED <<buf_count, pending, sinceRead>>
       ELSE /\ buf_count' = buf_count + 1
            /\ r = TRUE
            /\ pending' = Append(pending, b)
            /\ sinceRead' = sinceRead + 1
    /\ preempted' = (preempted \/ pc # "idle")
    /\ UNCHANGED <<rate, buf_head, hw, halted, c, out, pc, idx, tmp>>

\* receive testing buf_count > UART_BUFF_SZ where the code tests ==.
receive_off_by_one(b, r) ==
    /\ IF buf_count > UART_BUFF_SZ
       THEN /\ r = FALSE
            /\ UNCHANGED <<buffer, buf_count, pending, sinceRead>>
       ELSE /\ buffer' = [buffer EXCEPT
                            ![(buf_head + buf_count) % UART_BUFF_SZ] = b]
            /\ buf_count' = buf_count + 1
            /\ r = TRUE
            /\ pending' = Append(pending, b)
            /\ sinceRead' = sinceRead + 1
    /\ preempted' = (preempted \/ pc # "idle")
    /\ UNCHANGED <<rate, buf_head, hw, halted, c, out, pc, idx, tmp>>

\* receive(c) returning r: what it does to the driver.
receive_body(b, r) ==
    /\ IF buf_count = UART_BUFF_SZ
       THEN /\ r = FALSE
            /\ UNCHANGED <<buffer, buf_count, pending, sinceRead>>
       ELSE /\ buffer' = [buffer EXCEPT
                            ![(buf_head + buf_count) % UART_BUFF_SZ] = b]
            /\ buf_count' = buf_count + 1
            /\ r = TRUE
            /\ pending' = Append(pending, b)
            /\ sinceRead' = sinceRead + 1
    /\ preempted' = (preempted \/ pc # "idle")
    /\ UNCHANGED <<rate, buf_head, hw, halted, c, out, pc, idx, tmp>>

\* A call of receive whose result the caller sees.
receive(b) ==
    /\ ~halted
    /\ pc = "idle"
    /\ Called("receive", b)
    /\ \E r \in BOOLEAN : receive_body(b, r) /\ ret' = r

(***************************************************************************)
(* Call-level behaviour: every call is one step.                           *)
(***************************************************************************)
Next ==
    \/ \E R \in Rates : open(R)
    \/ isOpen
    \/ close
    \/ available
    \/ read
    \/ \E length \in 0 .. MaxReq : readBuf(length)
    \/ \E b \in Byte : receive(b)

Spec == Init /\ [][Next]_vars

(***************************************************************************)
(* Interrupt-level behaviour.  The foreground is inside at most one call   *)
(* and advances one access to the driver's fields or registers at a time;  *)
(* the receive handler runs to completion between any two of its steps.    *)
(***************************************************************************)
HasBit(v, n) == (v \div Shl(1, n)) % 2 = 1

\* The receive interrupt reaches the handler: UART and receiver enabled in
\* CR, RXIM unmasked, the IRQ line enabled at the VIC, the handler bound.
irq_armed ==
    /\ HasBit(regs[CR], 0)
    /\ HasBit(regs[CR], 9)
    /\ HasBit(regs[IMSC], 4)
    /\ HasBit(vic, IRQ)
    /\ handler

\* The bound receiver: reads the data register, hands the byte to receive
\* and drops the result.
receiveInterrupt ==
    /\ ~halted
    /\ irq_armed
    /\ Len(pending) - buf_count <= MaxLost
    /\ \E b \in Byte, r \in BOOLEAN : receive_body(b, r)
    /\ UNCHANGED <<lastOp, arg, ret, closes, trip>>

\* The foreground enters call op(a) at step `to`.
Enter(op, a, to) ==
    /\ ~halted
    /\ pc = "idle"
    /\ pc' = to
    /\ Called(op, a)
    /\ ret' = NoRet
    /\ idx' = 0
    /\ tmp' = 0
    /\ preempted' = FALSE
    /\ NoCallerData
    /\ wlog' = <<>>
    /\ UNCHANGED <<dev, ctl, halted, ghost>>

\* One step inside the call, from `from` to `to`.
Step(from, to) ==
    /\ ~halted
    /\ pc = from
    /\ pc' = to
    /\ UNCHANGED <<lastOp, arg, ret, closes, trip, preempted, halted>>

\* The call returns v.
Return(from, v) ==
    /\ ~halted
    /\ pc = from
    /\ pc' = "idle"
    /\ ret' = v
    /\ idx' = 0
    /\ tmp' = 0
    /\ UNCHANGED <<lastOp, arg, closes, trip, preempted, halted>>

\* The call fails (a bounds check, a division by zero) and the kernel stops.
Abort(from) ==
    /\ ~halted
    /\ pc = from
    /\ halted' = TRUE
    /\ UNCHANGED <<dev, hw, ghost, lastOp, arg, ret, closes, trip, c, out, fg>>

\* ---- open, pl011_uart.rs:39-94 ----
call_open(R) ==
    /\ lastOp' = "open"
    /\ Enter("open", R, "op_div")

\* open_div unmasking the receive interrupt as soon as the divisor passes.
open_div_unmasks_first ==
    /\ pc = "op_div"
    /\ IF Mul16(arg) = 0
       THEN Abort("op_div")
       ELSE IF int_divisor(arg) = 0 \/ int_divisor(arg) = U16_MAX
       THEN /\ Return("op_div", FALSE)
            /\ UNCHANGED <<dev, hw, ghost, c, out>>
       ELSE /\ Step("op_div", "op_ibrd")
            /\ regs' = ws(regs, IMSC, IMSC_RXIM)
            /\ wlog' = Append(wlog, <<IMSC, regs'[IMSC]>>)
            /\ UNCHANGED <<dev, vic, handler, ghost, c, out, idx, tmp>>

open_div ==
    /\ pc = "op_div"
    /\ IF Mul16(arg) = 0
       THEN Abort("op_div")
       ELSE IF int_divisor(arg) = 0 \/ int_divisor(arg) = U16_MAX
       THEN /\ Return("op_div", FALSE)
            /\ UNCHANGED <<dev, hw, ghost, c, out>>
       ELSE /\ Step("op_div", "op_ibrd")
            /\ UNCHANGED <<dev, hw, ghost, c, out, idx, tmp>>

open_ibrd ==
    /\ Step("op_ibrd", "op_fbrd")
    /\ regs' = wh(regs, IBRD, int_divisor(arg))
    /\ wlog' = Append(wlog, <<IBRD, regs'[IBRD]>>)
    /\ UNCHANGED <<dev, vic, handler, ghost, c, out, idx, tmp>>

open_fbrd ==
    /\ Step("op_fbrd", "op_lcr")
    /\ regs' = wh(regs, FBRD, f_divisor(arg))
    /\ wlog' = Append(wlog, <<FBRD, regs'[FBRD]>>)
    /\ UNCHANGED <<dev, vic, handler, ghost, c, out, idx, tmp>>

open_lcr ==
    /\ Step("op_lcr", "op_cr")
    /\ regs' = wh(regs, LCR_H, LCR_WLEN_8)
    /\ wlog' = Append(wlog, <<LCR_H, regs'[LCR_H]>>)
    /\ UNCHANGED <<dev, vic, handler, ghost, c, out, idx, tmp>>

open_cr ==
    /\ Step("op_cr", "op_vic")
    /\ regs' = wh(regs, CR, BitOr(CR_EN, BitOr(CR_RXE, CR_TXE)))
    /\ wlog' = Append(wlog, <<CR, regs'[CR]>>)
    /\ UNCHANGED <<dev, vic, handler, ghost, c, out, idx, tmp>>

open_vic ==
    /\ Step("op_vic", "op_imsc")
    /\ vic' = Shl(1, IRQ)
    /\ wlog' = Append(wlog, <<VIC_INT_ENABLE, vic'>>)
    /\ UNCHANGED <<dev, regs, handler, ghost, c, out, idx, tmp>>

open_imsc ==
    /\ Step("op_imsc", "op_bind")
    /\ regs' = ws(regs, IMSC, IMSC_RXIM)
    /\ wlog' = Append(wlog, <<IMSC, regs'[IMSC]>>)
    /\ UNCHANGED <<dev, vic, handler, ghost, c, out, idx, tmp>>

open_bind ==
    /\ Step("op_bind", "op_head")
    /\ handler' = TRUE
    /\ UNCHANGED <<dev, regs, vic, wlog, ghost, c, out, idx, tmp>>

open_head ==
    /\ Step("op_head", "op_count")
    /\ buf_head' = 0
    /\ UNCHANGED <<rate, buffer, buf_count, hw, ghost, c, out, idx, tmp>>

open_count ==
    /\ Return("op_count", FALSE)
    /\ buf_count' = 0
    /\ pending' = <<>>
    /\ sinceRead' = 0
    /\ UNCHANGED <<rate, buffer, buf_head, hw, c, out>>

\* ---- close, pl011_uart.rs:102-108 ----
call_close ==
    /\ lastOp' = "close"
    /\ Enter("close", 0, "cl_rate")

\* close_rate also masking the peripheral's interrupts.
close_rate_masks ==
    /\ Step("cl_rate", "cl_head")
    /\ rate' = 0
    /\ regs' = wh(regs, IMSC, 0)
    /\ UNCHANGED <<buffer, buf_head, buf_count, vic, handler, wlog, ghost,
                   c, out, idx, tmp>>

close_rate ==
    /\ Step("cl_rate", "cl_head")
    /\ rate' = 0
    /\ UNCHANGED <<buffer, buf_head, buf_count, hw, ghost, c, out, idx, tmp>>

close_head ==
    /\ Step("cl_head", "cl_count")
    /\ buf_head' = 0
    /\ UNCHANGED <<rate, buffer, buf_count, hw, ghost, c, out, idx, tmp>>

\* close_count returning without the store to buf_count.
close_count_skips ==
    /\ Return("cl_count", TRUE)
    /\ pending' = <<>>
    /\ sinceRead' = 0
    /\ UNCHANGED <<rate, buffer, buf_head, buf_count, hw, c, out>>

close_count ==
    /\ Return("cl_count", TRUE)
    /\ buf_count' = 0
    /\ pending' = <<>>
    /\ sinceRead' = 0
    /\ UNCHANGED <<rate, buffer, buf_head, hw, c, out>>

\* ---- read, pl011_uart.rs:129-142, alone or called from readBuf ----
call_read ==
    /\ lastOp' = "read"
    /\ Enter("read", 0, "rd_chk")

\* if self.buf_count == 0 { return 0 }
read_chk ==
    /\ pc = "rd_chk"
    /\ IF buf_count = 0
       THEN IF lastOp = "read"
            THEN /\ Return("rd_chk", 0)
                 /\ sinceRead' = 0
                 /\ UNCHANGED <<dev, hw, pending, c, out>>
            ELSE /\ Step("rd_chk", "rb_inc")
                 /\ UNCHANGED <<dev, hw, ghost, c, out, idx, tmp>>
       ELSE /\ Step("rd_chk", "rd_copy")
            /\ tmp' = buf_count
            /\ UNCHANGED <<dev, hw, ghost, c, out, idx>>

\* *c = self.buffer[self.buf_head]
read_copy ==
    /\ pc = "rd_copy"
    /\ IF buf_head \notin Slots
       THEN Abort("rd_copy")
       ELSE /\ Step("rd_copy", "rd_head")
            /\ IF lastOp = "read"
               THEN c' = buffer[buf_head] /\ out' = out
               ELSE out' = [out EXCEPT ![idx] = buffer[buf_head]] /\ c' = c
            /\ UNCHANGED <<dev, hw, ghost, idx, tmp>>

\* self.buf_head += 1
read_head ==
    /\ Step("rd_head", "rd_ldcnt")
    /\ buf_head' = buf_head + 1
    /\ UNCHANGED <<rate, buffer, buf_count, hw, ghost, c, out, idx, tmp>>

\* self.buf_count -= 1, the load: the build either loads buf_count again
\* or keeps the value it loaded for the test (receive writes buf_count with
\* no synchronisation, so both are outcomes of this code).
read_ldcnt ==
    /\ Step("rd_ldcnt", "rd_stcnt")
    /\ \E v \in {buf_count, tmp} : tmp' = v
    /\ UNCHANGED <<dev, hw, ghost, c, out, idx>>

\* self.buf_count -= 1, the store; return 1
read_stcnt ==
    /\ pc = "rd_stcnt"
    /\ buf_count' = tmp - 1
    /\ pending' = Rest(pending)
    /\ IF lastOp = "read"
       THEN /\ Return("rd_stcnt", 1)
            /\ sinceRead' = 0
            /\ UNCHANGED <<rate, buffer, buf_head, hw, c, out>>
       ELSE /\ Step("rd_stcnt", "rb_inc")
            /\ UNCHANGED <<rate, buffer, buf_head, hw, sinceRead,
                           c, out, idx, tmp>>

\* ---- readBuf, pl011_uart.rs:117-126 ----
call_readBuf(length) ==
    /\ lastOp' = "readBuf"
    /\ Enter("readBuf", length, "rb_loop")

\* while (i < length && self.buf_count > 0)
readBuf_test ==
    /\ pc = "rb_loop"
    /\ IF idx < arg /\ buf_count > 0
       THEN /\ Step("rb_loop", "rd_chk")
            /\ UNCHANGED <<dev, hw, ghost, c, out, idx, tmp>>
       ELSE /\ Return("rb_loop", idx)
            /\ sinceRead' = 0
            /\ UNCHANGED <<dev, hw, pending, c, out>>

\* i += 1
readBuf_inc ==
    /\ Step("rb_inc", "rb_loop")
    /\ idx' = idx + 1
    /\ UNCHANGED <<dev, hw, ghost, c, out, tmp>>

\* The interrupt-mask register holds its reset value, 0.
IrqInit == Init /\ regs[IMSC] = 0

IrqNext ==
    \/ \E R \in Rates : call_open(R)
    \/ open_div
    \/ open_ibrd
    \/ open_fbrd
    \/ open_lcr
    \/ open_cr
    \/ open_vic
    \/ open_imsc
    \/ open_bind
    \/ open_head
    \/ open_count
    \/ call_close
    \/ close_rate
    \/ close_head
    \/ close_count
    \/ call_read
    \/ read_chk
    \/ read_copy
    \/ read_head
    \/ read_ldcnt
    \/ read_stcnt
    \/ \E length \in 0 .. MaxReq : call_readBuf(length)
    \/ readBuf_test
    \/ readBuf_inc
    \/ isOpen
    \/ available
    \/ receiveInterrupt

IrqSpec == IrqInit /\ [][IrqNext]_vars

(***************************************************************************)
(* The consumer loop: one open(9600), then the foreground calls read again *)
(* and again while UART0_receiveInterrupt-style interrupts deliver bytes.  *)
(* The foreground is the only thread and an interrupt runs to completion   *)
(* and returns, so the foreground's next step is always taken eventually;  *)
(* nothing obliges the wire to deliver another byte.                       *)
(***************************************************************************)
open_once == lastOp = "new" /\ call_open(9600)

read_again == lastOp # "new" /\ call_read

Consumer ==
    \/ open_once
    \/ open_div
    \/ open_ibrd
    \/ open_fbrd
    \/ open_lcr
    \/ open_cr
    \/ open_vic
    \/ open_imsc
    \/ open_bind
    \/ open_head
    \/ open_count
    \/ read_again
    \/ read_chk
    \/ read_copy
    \/ read_head
    \/ read_ldcnt
    \/ read_stcnt

DrainNext ==
    \/ open_once
    \/ open_div
    \/ open_ibrd
    \/ open_fbrd
    \/ open_lcr
    \/ open_cr
    \/ open_vic
    \/ open_imsc
    \/ open_bind
    \/ open_head
    \/ open_count
    \/ read_again
    \/ read_chk
    \/ read_copy
    \/ read_head
    \/ read_ldcnt
    \/ read_stcnt
    \/ receiveInterrupt

\* Every step of Consumer changes pc or halted.
DrainSpec == IrqInit /\ [][DrainNext]_vars /\ WF_<<pc, halted>>(Consumer)

(***************************************************************************)
(* The UART0 driver of arm926ej_s.rs (struct UART).  A machine runs one    *)
(* driver over the peripheral: lastOp of a UART0 call starts with "UART.". *)
(***************************************************************************)
\* The static initialiser of UART0.
UART0 ==
    /\ rate = 0
    /\ buffer = [i \in Slots |-> 0]
    /\ buf_head = 0
    /\ buf_count = 0

UartOps == {"UART0", "UART.open", "UART.write", "UART.writeBuf"}

\* UART::open: the rate is not used; VIC enable, the mask register and the
\* handler are set by plain stores.
UART_open(r) ==
    /\ ~halted
    /\ lastOp \in UartOps
    /\ Called("UART.open", r)
    /\ pc = "idle"
    /\ UNCHANGED fg
    /\ vic' = Shl(1, IRQ)
    /\ regs' = [regs EXCEPT ![IMSC] = Shl(1, 4)]
    /\ wlog' = << <<VIC_INT_ENABLE, Shl(1, IRQ)>>, <<IMSC, Shl(1, 4)>> >>
    /\ handler' = TRUE
    /\ buf_head' = 0
    /\ buf_count' = 0
    /\ ret' = FALSE
    /\ pending' = <<>>
    /\ sinceRead' = 0
    /\ NoCallerData
    /\ UNCHANGED <<rate, buffer, halted>>

(***************************************************************************)
(* Calls of open on a wider set of rates, on either driver.                *)
(***************************************************************************)
\* Every rate up to MaxRate (22 and below: the quotient does not fit 16
\* bits), 307 (the fraction rounds to 64/64), the usual 9600 and 115200,
\* 1500000 (divisor 1), 1500001 (divisor 0), 2^28 (16 * R wraps to 0) and
\* 2^28 + 9600 (16 * R wraps to 16 * 9600).
DivRates == (1 .. MaxRate) \cup
            {307, 9600, 115200, 1500000, 1500001, 268435456, 268445056}

PL011_open == lastOp \notin UartOps /\ \E R \in DivRates : open(R)

OpenInit ==
    /\ \/ new /\ lastOp = "new"
       \/ UART0 /\ lastOp = "UART0"
    /\ PowerOn

OpenNext ==
    \/ PL011_open
    \/ \E r \in Rates : UART_open(r)

OpenSpec == OpenInit /\ [][OpenNext]_vars

(***************************************************************************)
(* The transmit path of the three drivers.  write is one store; writeBuf   *)
(* advances one loop test, one write or one increment at a time.           *)
(***************************************************************************)
\* struct PrimeCell of primecell_uart.rs; the source has no constructor for
\* it and the transmit path reads none of its fields but base.
PrimeCell ==
    /\ rate = 0
    /\ buffer = [i \in Slots |-> 0]
    /\ buf_head = 0
    /\ buf_count = 0

PrimeCellOps == {"PrimeCell", "PrimeCell.write", "PrimeCell.writeBuf"}

\* The driver this machine runs.
Driver ==
    IF lastOp \in UartOps THEN "UART"
    ELSE IF lastOp \in PrimeCellOps THEN "PrimeCell"
    ELSE "PL011"

\* Slices a caller hands to writeBuf.
Slices == [OutSlots -> Byte]

\* write(c): the byte is stored to the data register; returns 1.
write_body(op, b) ==
    /\ ~halted
    /\ pc = "idle"
    /\ Called(op, b)
    /\ UNCHANGED fg
    /\ regs' = wh(regs, DR, b)
    /\ wlog' = << <<DR, b>> >>
    /\ ret' = 1
    /\ NoCallerData
    /\ UNCHANGED <<dev, vic, handler, halted, ghost>>

\* The caller enters writeBuf(buffer, length).
writeBuf_call(op, bf, length) ==
    /\ ~halted
    /\ pc = "idle"
    /\ pc' = "wb_loop"
    /\ Called(op, length)
    /\ ret' = NoRet
    /\ idx' = 0
    /\ tmp' = 0
    /\ preempted' = FALSE
    /\ c' = fresh_c
    /\ out' = bf
    /\ wlog' = <<>>
    /\ UNCHANGED <<dev, ctl, halted, ghost>>

\* while (i < length), and return length when the test fails
writeBuf_while(op) ==
    /\ lastOp = op
    /\ pc = "wb_loop"
    /\ IF idx < arg
       THEN /\ Step("wb_loop", "wb_write")
            /\ UNCHANGED <<dev, hw, ghost, c, out, idx, tmp>>
       ELSE /\ Return("wb_loop", arg)
            /\ UNCHANGED <<dev, hw, ghost, c, out>>

\* self.write(buffer[i]), going on at step `to`; the log keeps at most
\* MaxReq + 1 stores.
writeBuf_store(op, to) ==
    /\ lastOp = op
    /\ pc = "wb_write"
    /\ Len(wlog) <= MaxReq
    /\ IF idx \notin OutSlots
       THEN Abort("wb_write")
       ELSE /\ Step("wb_write", to)
            /\ regs' = wh(regs, DR, out[idx])
            /\ wlog' = Append(wlog, <<DR, out[idx]>>)
            /\ UNCHANGED <<dev, vic, handler, ghost, c, out, idx, tmp>>

\* ---- PL011, pl011_uart.rs:145-168 ----
write(b) ==
    /\ Driver = "PL011"
    /\ write_body("write", b)

call_writeBuf(bf, length) ==
    /\ Driver = "PL011"
    /\ writeBuf_call("writeBuf", bf, length)

writeBuf_test ==
    /\ Driver = "PL011"
    /\ writeBuf_while("writeBuf")

writeBuf_write ==
    /\ Driver = "PL011"
    /\ writeBuf_store("writeBuf", "wb_inc")

\* i += 1
writeBuf_inc ==
    /\ lastOp = "writeBuf"
    /\ Step("wb_inc", "wb_loop")
    /\ idx' = idx + 1
    /\ UNCHANGED <<dev, hw, ghost, c, out, tmp>>

\* ---- UART0, arm926ej_s.rs:427-449: the loop has no i += 1 ----
UART_write(b) ==
    /\ Driver = "UART"
    /\ write_body("UART.write", b)

UART_call_writeBuf(bf, length) ==
    /\ Driver = "UART"
    /\ writeBuf_call("UART.writeBuf", bf, length)

UART_writeBuf_test ==
    /\ Driver = "UART"
    /\ writeBuf_while("UART.writeBuf")

UART_writeBuf_write ==
    /\ Driver = "UART"
    /\ writeBuf_store("UART.writeBuf", "wb_loop")

\* ---- PrimeCell, primecell_uart.rs:113-135: the loop has no i += 1 ----
PrimeCell_write(b) ==
    /\ Driver = "PrimeCell"
    /\ write_body("PrimeCell.write", b)

PrimeCell_call_writeBuf(bf, length) ==
    /\ Driver = "PrimeCell"
    /\ writeBuf_call("PrimeCell.writeBuf", bf, length)

PrimeCell_writeBuf_test ==
    /\ Driver = "PrimeCell"
    /\ writeBuf_while("PrimeCell.writeBuf")

PrimeCell_writeBuf_write ==
    /\ Driver = "PrimeCell"
    /\ writeBuf_store("PrimeCell.writeBuf", "wb_loop")

WriteInit ==
    /\ \/ new /\ lastOp = "new"
       \/ UART0 /\ lastOp = "UART0"
       \/ PrimeCell /\ lastOp = "PrimeCell"
    /\ PowerOn

WriteNext ==
    \/ \E b \in Byte : write(b)
    \/ \E bf \in Slices, length \in 0 .. MaxReq : call_writeBuf(bf, length)
    \/ writeBuf_test
    \/ writeBuf_write
    \/ writeBuf_inc
    \/ \E b \in Byte : UART_write(b)
    \/ \E bf \in Slices, length \in 0 .. MaxReq : UART_call_writeBuf(bf, length)
    \/ UART_writeBuf_test
    \/ UART_writeBuf_write
    \/ \E b \in Byte : PrimeCell_write(b)
    \/ \E bf \in Slices, length \in 0 .. MaxReq :
           PrimeCell_call_writeBuf(bf, length)
    \/ PrimeCell_writeBuf_test
    \/ PrimeCell_writeBuf_write

WriteSpec == WriteInit /\ [][WriteNext]_vars

(***************************************************************************)
(* The register I/O primitives called on their own, on the control and the *)
(* interrupt-mask register.                                                *)
(***************************************************************************)
IoAddrs == {CR, IMSC}
Words == 0 .. MaxWord

\* A call of io::read, io::ws or io::wh leaves the driver as it is.
io_call(op, a) ==
    /\ ~halted
    /\ pc = "idle"
    /\ Called(op, a)
    /\ NoCallerData
    /\ UNCHANGED <<dev, vic, handler, halted, ghost, fg>>

call_io_read(addr) ==
    /\ io_call("io.read", addr)
    /\ ret' = io_read(regs, addr)
    /\ wlog' = <<>>
    /\ UNCHANGED regs

call_ws(addr, value) ==
    /\ io_call("io.ws", value)
    /\ regs' = ws(regs, addr, value)
    /\ wlog' = << <<addr, regs'[addr]>> >>
    /\ ret' = NoRet

call_wh(addr, value) ==
    /\ io_call("io.wh", value)
    /\ regs' = wh(regs, addr, value)
    /\ wlog' = << <<addr, regs'[addr]>> >>
    /\ ret' = NoRet

IoNext ==
    \/ \E addr \in IoAddrs : call_io_read(addr)
    \/ \E addr \in IoAddrs, value \in Words : call_ws(addr, value)
    \/ \E addr \in IoAddrs, value \in Words : call_wh(addr, value)

IoSpec == Init /\ [][IoNext]_vars

(***************************************************************************)
(* Properties.                                                             *)
(***************************************************************************)
\* A rate open is meant to accept: at least 1, with a divisor that can be
\* computed and is neither 0 nor the 16-bit maximum.
AcceptableRate(R) ==
    /\ R >= 1
    /\ Mul16(R) # 0
    /\ int_divisor(R) # 0
    /\ int_divisor(R) # U16_MAX

\* C1: open(R) returns true and leaves the device Open (rate nonzero) for
\* every R >= 1 whose integer divisor is neither 0 nor 65535; for every other
\* R it returns false and the device is Closed.
OpenSucceedsOnAcceptableRate ==
    (lastOp = "open" /\ pc = "idle") =>
        /\ ~halted
        /\ IF AcceptableRate(arg)
           THEN ret = TRUE /\ rate # 0
           ELSE ret = FALSE /\ rate = 0

\* C2: the bytes the reads return are the bytes receive accepted, each once
\* and in the order accepted: a read made while accepted bytes are waiting
\* returns 1 and the oldest of them, however many reads went before, and a
\* read made while none is waiting returns 0.
FifoOrdering ==
    [][ lastOp' = "read" =>
          /\ ~halted'
          /\ IF pending = <<>>
             THEN ret' = 0 /\ pending' = pending
             ELSE ret' = 1 /\ c' = Head(pending) /\ pending' = Tail(pending)
       ]_vars

\* C3: after UART_BUFF_SZ accepted receive calls with no read in between,
\* available() returns UART_BUFF_SZ, and a further receive returns false and
\* leaves buf_count, buf_head and every slot of the ring unchanged.
Overrun ==
    [][ /\ (lastOp' = "available" /\ sinceRead' = UART_BUFF_SZ) =>
               ret' = UART_BUFF_SZ
        /\ (lastOp' = "receive" /\ sinceRead = UART_BUFF_SZ) =>
               /\ ret' = FALSE
               /\ buf_count' = UART_BUFF_SZ
               /\ UNCHANGED <<buf_head, buf_count, buffer>> ]_vars

OverrunSeen ==
    /\ lastOp = "receive"
    /\ ret = FALSE
    /\ sinceRead = UART_BUFF_SZ
    /\ buf_count = UART_BUFF_SZ

\* C4: 0 <= buf_count <= capacity in every state, those in which the
\* interrupt handler ran inside a foreground call included.
CountInBounds == buf_count \in 0 .. UART_BUFF_SZ

\* The handler ran between the load and the store of read's decrement, on a
\* ring it filled to capacity.
PreemptedAtCapacity ==
    /\ pc = "rd_stcnt"
    /\ preempted
    /\ buf_count = UART_BUFF_SZ
    /\ tmp < buf_count

\* C5: the head index stays inside the ring, 0 <= buf_head < capacity.
HeadInBounds == buf_head \in Slots

\* C6: isOpen() returns true exactly when the stored baud rate is nonzero.
IsOpenIffRateNonzero ==
    lastOp = "isOpen" => (ret <=> rate # 0)

\* C7: with k bytes buffered, readBuf(buf, m) returns min(m, k), has copied
\* the min(m, k) oldest buffered bytes to buf[0 .. min(m, k)) in arrival
\* order, and leaves k - min(m, k) bytes buffered.
PartialRead ==
    [][ lastOp' = "readBuf" =>
          /\ ~halted'
          /\ ret' = Min(arg', buf_count)
          /\ buf_count' = buf_count - ret'
          /\ \A j \in 0 .. (ret' - 1) : out'[j] = pending[j + 1] ]_vars

\* C8: read on an empty ring returns 0 and leaves buf_head, buf_count, the
\* ring and the caller's byte as they were.
Underrun ==
    [][ (lastOp' = "read" /\ buf_count = 0) =>
          /\ ~halted'
          /\ ret' = 0
          /\ c' = fresh_c
          /\ UNCHANGED <<buf_head, buf_count, buffer>> ]_vars

UnderrunSeen ==
    /\ lastOp = "read"
    /\ ~halted
    /\ ret = 0
    /\ buf_count = 0
    /\ buf_head > 0
    /\ buffer[0] # 0

\* C9: close always returns true and leaves rate, buf_head and buf_count 0
\* (available() returns 0 after it); a second close right after the first
\* changes nothing and returns the same.
CloseIdempotent ==
    [][ /\ lastOp' = "close" =>
              /\ ~halted'
              /\ ret' = TRUE
              /\ rate' = 0
              /\ buf_head' = 0
              /\ buf_count' = 0
              /\ (lastOp = "close" =>
                     UNCHANGED <<rate, buffer, buf_head, buf_count, regs,
                                 vic, handler, ret>>)
        /\ (lastOp = "close" /\ lastOp' = "available") => ret' = 0 ]_vars

SecondCloseSeen ==
    /\ lastOp = "close"
    /\ closes = 2
    /\ buffer[0] # 0
    /\ buf_count = 0

\* C10: in open(9600), close(), open(9600) both opens return true, and
\* buf_count is 0 right after each of them.
RoundTrip ==
    (lastOp = "open" /\ pc = "idle" /\ trip \in {1, 3}) =>
        /\ ~halted
        /\ ret = TRUE
        /\ buf_count = 0

\* C11: when open rejects a baud rate (integer divisor 0 or 65535) it returns
\* false having made no register write (IBRD, FBRD, LCR_H, CR, IMSC, VIC
\* enable), bound no handler and changed neither rate, head nor count.
ConfigErrorAtomic ==
    [][ ( /\ lastOp' = "open"
          /\ Mul16(arg') # 0
          /\ int_divisor(arg') \in {0, U16_MAX} ) =>
            /\ ~halted'
            /\ ret' = FALSE
            /\ wlog' = <<>>
            /\ UNCHANGED <<regs, vic, handler, rate, buf_head, buf_count>>
      ]_vars

\* A rate is rejected on a device an earlier open programmed and that holds
\* a received byte.
ConfigErrorSeen ==
    /\ lastOp = "open"
    /\ arg = 1500001
    /\ ret = FALSE
    /\ regs[IBRD] = 156
    /\ buf_count > 0

\* floor(CLK / (16 * R)) over the integers.
Quotient(R) == (UART_CLK \div 16) \div R

\* C12: for every rate R >= 1, open fails (returns false, having programmed
\* nothing) whenever floor(CLK / (16 * R)) is 0 or does not fit below the
\* 16-bit maximum, and otherwise the value it writes to the integer divisor
\* register is floor(CLK / (16 * R)) exactly.
DivisorExact ==
    [][ lastOp' = "open" =>
          /\ ~halted'
          /\ IF Quotient(arg') = 0 \/ Quotient(arg') >= U16_MAX
             THEN ret' = FALSE /\ wlog' = <<>>
             ELSE \E i \in 1 .. Len(wlog') :
                      wlog'[i] = <<IBRD, Quotient(arg')>>
      ]_vars

\* T = floor(8 * (CLK mod (16 * R)) / R) over the integers (CLK mod (16 * R)
\* is CLK when 16 * R exceeds CLK).
FractionT(R) ==
    IF R > UART_CLK \div 16
    THEN (8 * UART_CLK) \div R
    ELSE (8 * (UART_CLK % (16 * R))) \div R

\* C13: for every rate open accepts, the value written to the fractional
\* divisor register is T / 2 rounded to the nearest integer, halves up, and
\* lies in 0 .. 63: the 6-bit mask does not alter the rounded value.
FractionRounded ==
    [][ ( /\ lastOp' = "open"
          /\ Mul16(arg') # 0
          /\ int_divisor(arg') \notin {0, U16_MAX} ) =>
            /\ regs'[FBRD] = (FractionT(arg') + 1) \div 2
            /\ regs'[FBRD] \in 0 .. 63
      ]_vars

\* C14: for CLK = 24,000,000 and R = 115200 the algorithm yields integer
\* divisor 13 and fractional divisor 0, because 24,000,000 mod (16 * 115200)
\* is 0.
Divisor115200 ==
    (lastOp = "open" /\ arg = 115200) =>
        /\ regs[IBRD] = 13
        /\ regs[FBRD] = 0
        /\ UART_CLK % (16 * 115200) = 0

\* C14 as amended: for CLK = 24,000,000 and R = 115200 the algorithm yields
\* integer divisor 13 and fractional divisor 1, because 24,000,000 mod
\* (16 * 115200) is 38400, which makes T = 2.
Divisor115200Amended ==
    (lastOp = "open" /\ arg = 115200) =>
        /\ regs[IBRD] = 13
        /\ regs[FBRD] = 1
        /\ UART_CLK % (16 * 115200) = 38400
        /\ FractionT(115200) = 2

\* open(115200) has programmed a device that held another rate's divisors.
Opened115200 ==
    /\ lastOp = "open"
    /\ arg = 115200
    /\ trip = 0
    /\ Len(wlog) = 6
    /\ wlog[1] = <<IBRD, 13>>

\* The interrupt bits of the mask register, UARTIMSC[10:0].
MaskBits == 0 .. 10

\* C16: open unmasks the receive interrupt by setting, not overwriting: in
\* PL011::open and in the UART0 open alike, after an open that programs the
\* device the RXIM bit of the mask register is 1 and every other bit is as
\* it was before the call.
UnmaskSetsNotOverwrites ==
    [][ ( \/ lastOp' = "UART.open"
          \/ lastOp' = "open" /\ wlog' # <<>> ) =>
            /\ HasBit(regs'[IMSC], 4)
            /\ \A n \in MaskBits \ {4} :
                   HasBit(regs'[IMSC], n) = HasBit(regs[IMSC], n)
      ]_vars

\* The place of the first store to address a in the write log, 0 if none.
FirstWrite(a) ==
    IF \E i \in 1 .. Len(wlog) : wlog[i][1] = a
    THEN CHOOSE i \in 1 .. Len(wlog) :
             /\ wlog[i][1] = a
             /\ \A j \in 1 .. (i - 1) : wlog[j][1] # a
    ELSE 0

\* Address a is stored to only after address b has been.
After(a, b) == FirstWrite(a) # 0 => (FirstWrite(b) # 0 /\ FirstWrite(b) < FirstWrite(a))

\* C15: in every execution of open that passes the divisor check the stores
\* go to the integer divisor, the fractional divisor, the line-control and
\* the control register in this order, and the receive interrupt is unmasked
\* (IMSC) and the IRQ line enabled at the VIC only after the control register
\* is written; an open that has returned after the check made all of them.
WriteOrder ==
    lastOp = "open" =>
        /\ After(FBRD, IBRD)
        /\ After(LCR_H, FBRD)
        /\ After(CR, LCR_H)
        /\ After(IMSC, CR)
        /\ After(VIC_INT_ENABLE, CR)
        /\ (pc = "idle" /\ wlog # <<>>) =>
               /\ FirstWrite(IMSC) # 0
               /\ FirstWrite(VIC_INT_ENABLE) # 0
               /\ regs[CR] = BitOr(CR_EN, BitOr(CR_RXE, CR_TXE))

\* An open has returned after its six stores, with the handler having run
\* inside it.
OpenStoresSeen ==
    /\ lastOp = "open"
    /\ pc = "idle"
    /\ Len(wlog) = 6
    /\ preempted

WriteOps == {"write", "UART.write", "PrimeCell.write"}
WriteBufOps == {"writeBuf", "UART.writeBuf", "PrimeCell.writeBuf"}

\* C17: in every UART variant, writeBuf(buffer, length) writes buffer[0],
\* ..., buffer[length - 1] to the data register once each in index order
\* (at no time has it made a store that is not the next of these) and
\* returns length having made all of them; write(c) makes exactly one store
\* of c to the data register and returns 1.
WritesOnceEach ==
    /\ lastOp \in WriteBufOps =>
          /\ Len(wlog) <= arg
          /\ \A i \in 1 .. Len(wlog) : wlog[i] = <<DR, out[i - 1]>>
          /\ ~halted
          /\ pc = "idle" => (ret = arg /\ Len(wlog) = arg)
    /\ lastOp \in WriteOps =>
          /\ wlog = << <<DR, arg>> >>
          /\ ret = 1

\* C18: a closed UART yields no data: once close has returned, and until
\* the next call, the next available() returns 0, whatever receive
\* interrupts fire in between (a read returns a byte exactly when
\* available() is not 0).
ClosedYieldsNoData ==
    [][ (lastOp = "close" /\ pc = "idle" /\ lastOp' = "available") =>
            ret' = 0
      ]_vars

\* C19: close changes only rate, head and count: each of its steps leaves
\* the interrupt-mask register and the other registers, the VIC enable, the
\* bound handler and every slot of the ring as they were, so a receive
\* interrupt that was armed stays armed.
CloseFrame ==
    [][ (lastOp = "close" /\ pc # "idle" /\ pc' # pc) =>
            /\ UNCHANGED <<regs, vic, handler, buffer>>
            /\ irq_armed => irq_armed'
      ]_vars

\* close has returned on an armed device and the handler has stored a byte
\* since.
ArmedAfterClose ==
    /\ lastOp = "close"
    /\ pc = "idle"
    /\ ret = TRUE
    /\ irq_armed
    /\ buf_count > 0

\* The bits of the words the primitives are tried on.
WordBits == 0 .. 15

\* The address the last call stored to.
Stored == wlog'[1][1]

\* C20: ws(addr, m) leaves the word at addr equal to v OR m, v being its old
\* value (a bit of the result is 1 exactly when it is 1 in v or in m, so no
\* bit that was 1 becomes 0), and changes no other address; wh(addr, m)
\* leaves it equal to m whatever v was; read(addr) returns v and changes
\* nothing.
IoPrimitives ==
    [][ /\ lastOp' = "io.ws" =>
              /\ \A n \in WordBits :
                     HasBit(regs'[Stored], n) <=>
                         (HasBit(regs[Stored], n) \/ HasBit(arg', n))
              /\ \A r \in Registers \ {Stored} : regs'[r] = regs[r]
        /\ lastOp' = "io.wh" =>
              /\ regs'[Stored] = arg'
              /\ \A r \in Registers \ {Stored} : regs'[r] = regs[r]
        /\ lastOp' = "io.read" =>
              /\ ret' = regs[arg']
              /\ regs' = regs
      ]_vars

\* ws has set two low bits of a mask register that held TXIM and another
\* bit, and both are still set.
SetBitsSeen ==
    /\ lastOp = "io.ws"
    /\ arg = 3
    /\ regs[IMSC] = IMSC_TXIM + 7

\* C21: with the receive handler preempting the foreground between any two
\* steps of read, no torn update is observable: a read that returns gives
\* the oldest byte receive accepted and no read returned yet, and it returns
\* 0 only when there is no such byte (none is lost, none is replaced by a
\* stale slot).
NoTornUpdate ==
    [][ (lastOp = "read" /\ pc # "idle" /\ pc' = "idle") =>
            IF pending = <<>>
            THEN ret' = 0
            ELSE ret' = 1 /\ c' = Head(pending)
      ]_pc

\* C22: close is safe against a pending interrupt: whatever the receive
\* handler does between close's assignments, buf_count stays within
\* 0 .. UART_BUFF_SZ after every step taken while close is running, and at
\* the step on which close returns rate, buf_head and buf_count are all 0.
CloseSafe ==
    [][ (lastOp = "close" /\ pc # "idle") =>
            /\ buf_count' \in 0 .. UART_BUFF_SZ
            /\ (pc' = "idle" =>
                    rate' = 0 /\ buf_head' = 0 /\ buf_count' = 0)
      ]_<<pc, buf_count>>

\* close has returned after the handler ran, and stored a byte, between two
\* of its assignments.
PreemptedClose ==
    /\ lastOp = "close"
    /\ pc = "idle"
    /\ preempted
    /\ ret = TRUE
    /\ sinceRead = 0
    /\ buf_count = 0
    /\ \E i \in Slots : buffer[i] # 0

\* C23: open binds the receive handler before it enables the IRQ line at the
\* VIC and before it unmasks RXIM, so in no reachable state can a receive
\* interrupt be delivered (UART and receiver enabled, RXIM unmasked, line
\* enabled) while no handler is bound.
HandlerBoundFirst ==
    ( /\ HasBit(regs[CR], 0)
      /\ HasBit(regs[CR], 9)
      /\ HasBit(regs[IMSC], 4)
      /\ HasBit(vic, IRQ) ) => handler

\* C24: conservation: whenever no foreground call is in progress, the bytes
\* receive accepted since the last open or close and no read has returned
\* yet are exactly the available() bytes: none is lost other than by an
\* overrun or a reset.
Conservation ==
    (pc = "idle" /\ ~halted) => buf_count = Len(pending)

\* C25: drain liveness, in the form a finite run refutes: with the
\* foreground calling read again and again and no close or open after the
\* first open, the consumer always has a next step to take while
\* available() is above 0, however many bytes went through the buffer
\* before; so every accepted byte can still be returned and available()
\* can still reach 0.
DrainNeverStalls ==
    buf_count > 0 => ENABLED Consumer

====
